---- MODULE Spec2Model ----
(***************************************************************************)
(* Model of my_timetracker (src/app.py): the Database gateway over the     *)
(* mtt_users / mtt_tasks tables and the TimerApp form controller with its  *)
(* timer thread.                                                           *)
(***************************************************************************)
EXTENDS Integers, FiniteSets, Sequences, TLC

\* ---------------------------------------------------------------- bounds
MaxTime == 1        \* the clock advances at most this far
MaxTasks == 2       \* at most this many rows are inserted into mtt_tasks
MaxThreads == 2     \* at most this many timer threads are alive at a time
MaxElapsed == 90000 \* the longest run of a task, in seconds, the display is checked for

\* ------------------------------------------------------------ vocabulary
NULL == -1                          \* Python None / SQL NULL
NORMAL == "normal"                  \* tk.NORMAL
DISABLED == "disabled"              \* tk.DISABLED
StartupUser == "Dwisler"            \* the user added at every program start
UserNames == {"", "alice"}                \* texts typed into user_entry
PeerNames == {"alice", StartupUser}        \* usernames the second process submits
TaskNames == {"", "t1", "t2"}             \* texts typed into task_entry
Faults == {"none", "error"}               \* outcome of a statement: ok / psycopg2.Error
InsertOutcomes == {"none", "unique", "error"}  \* ... / UniqueViolation / other psycopg2.Error

VARIABLES
    db,                 \* the store as seen through Database: tables, sequences, open transaction
    now,                \* the clock (CURRENT_TIMESTAMP and datetime.now())
    pc,                 \* position of the GUI process: "idle" (in mainloop), "add_user", "exited"
    user_id,            \* TimerApp.user_id
    user_entry,         \* text of TimerApp.user_entry
    user_entry_state,   \* state of TimerApp.user_entry
    user_button,        \* state of TimerApp.user_button
    task_entry,         \* text of TimerApp.task_entry
    start_button,       \* state of TimerApp.start_button
    stop_button,        \* state of TimerApp.stop_button
    timer_label,        \* text of TimerApp.timer_label
    timer_running,      \* TimerApp.timer_running
    start_time,         \* TimerApp.start_time
    threads,            \* live timer threads: records [id, at]
    peer,               \* a second process running get_or_create_user on the same store
    created,            \* ids of the task entries inserted by this session's start_task
    lastEvent           \* the last handler that ran: its input, gateway calls and outcome

vars == <<db, now, pc, user_id, user_entry, user_entry_state, user_button,
          task_entry, start_button, stop_button, timer_label, timer_running,
          start_time, threads, peer, created, lastEvent>>

\* ------------------------------------------------------- psycopg2 session
\* The connection is not in autocommit mode: the first statement after a
\* commit or rollback opens a transaction, and CURRENT_TIMESTAMP is the start
\* time of the transaction.
execute(d, t) == IF d.txn = NULL THEN [d EXCEPT !.txn = t] ELSE d

commit(d) == [d EXCEPT !.txn = NULL]

rollback(d) == [d EXCEPT !.txn = NULL]

CURRENT_TIMESTAMP(d) == d.txn

UserRows(d, username) == {r \in d.users : r.username = username}

UserIds(d) == {r.id : r \in d.users}

\* ---------------------------------------------------------------- Database
\* add_user on a table without the UNIQUE constraint on username
add_user_no_unique(d, t, username, fault) ==
    LET d1 == execute(d, t) IN
    IF fault = "error"
    THEN [db |-> rollback(d1), ret |-> NULL, raised |-> "Error"]
    ELSE [db |-> commit([d1 EXCEPT
                            !.users = @ \cup {[id |-> d1.user_seq, username |-> username]},
                            !.user_seq = @ + 1]),
          ret |-> d1.user_seq, raised |-> "none"]

\* add_user whose id sequence is not advanced by a successful INSERT
add_user_stale_seq(d, t, username, fault) ==
    LET d1 == execute(d, t) IN
    IF fault = "error"
    THEN [db |-> rollback(d1), ret |-> NULL, raised |-> "Error"]
    ELSE IF UserRows(d1, username) # {}
    THEN [db |-> rollback(d1), ret |-> NULL, raised |-> "UniqueViolation"]
    ELSE [db |-> commit([d1 EXCEPT
                            !.users = @ \cup {[id |-> d1.user_seq, username |-> username]}]),
          ret |-> d1.user_seq, raised |-> "none"]

\* INSERT INTO mtt_users (username) VALUES (%s) RETURNING id
add_user(d, t, username, fault) ==
    LET d1 == execute(d, t) IN
    IF fault = "error"
    THEN [db |-> rollback(d1), ret |-> NULL, raised |-> "Error"]
    ELSE IF UserRows(d1, username) # {}
    THEN [db |-> rollback(d1), ret |-> NULL, raised |-> "UniqueViolation"]
    ELSE [db |-> commit([d1 EXCEPT
                            !.users = @ \cup {[id |-> d1.user_seq, username |-> username]},
                            !.user_seq = @ + 1]),
          ret |-> d1.user_seq, raised |-> "none"]

\* SELECT id FROM mtt_users WHERE username = %s, then fetchone()
select_user(d, t, username, fault) ==
    LET d1 == execute(d, t) IN
    IF fault = "error"
    THEN [db |-> rollback(d1), ret |-> NULL, raised |-> "Error"]
    ELSE [db |-> d1,
          ret |-> IF UserRows(d1, username) = {} THEN NULL
                  ELSE (CHOOSE r \in UserRows(d1, username) : TRUE).id,
          raised |-> "none"]

\* Database.start_task whose failed INSERT is committed instead of rolled back
db_start_task_keeps_row(d, t, uid, task_name, outcome) ==
    LET d1 == execute(d, t)
        ins == [d1 EXCEPT
                   !.tasks = @ \cup {[id |-> d1.task_seq, user_id |-> uid,
                                      task |-> task_name,
                                      start |-> CURRENT_TIMESTAMP(d1),
                                      finish |-> NULL]},
                   !.task_seq = @ + 1]
    IN
    IF outcome = "error"
    THEN [db |-> commit(ins), raised |-> "Error", exits |-> TRUE]
    ELSE IF outcome = "unique"
    THEN [db |-> commit(ins), raised |-> "UniqueViolation", exits |-> FALSE]
    ELSE [db |-> commit(ins), raised |-> "none", exits |-> FALSE]

\* Database.start_task without the sys.exit() of its last handler
db_start_task_no_exit(d, t, uid, task_name, outcome) ==
    LET d1 == execute(d, t) IN
    IF outcome = "error"
    THEN [db |-> rollback(d1), raised |-> "Error", exits |-> FALSE]
    ELSE IF outcome = "unique"
    THEN [db |-> rollback(d1), raised |-> "UniqueViolation", exits |-> FALSE]
    ELSE [db |-> commit([d1 EXCEPT
                            !.tasks = @ \cup {[id |-> d1.task_seq, user_id |-> uid,
                                               task |-> task_name,
                                               start |-> CURRENT_TIMESTAMP(d1),
                                               finish |-> NULL]},
                            !.task_seq = @ + 1]),
          raised |-> "none", exits |-> FALSE]

\* INSERT INTO mtt_tasks (user_id, task, start) VALUES (%s, %s, CURRENT_TIMESTAMP)
db_start_task(d, t, uid, task_name, outcome) ==
    LET d1 == execute(d, t) IN
    IF outcome = "error"
    THEN [db |-> rollback(d1), raised |-> "Error", exits |-> TRUE]
    ELSE IF outcome = "unique"
    THEN [db |-> rollback(d1), raised |-> "UniqueViolation", exits |-> FALSE]
    ELSE [db |-> commit([d1 EXCEPT
                            !.tasks = @ \cup {[id |-> d1.task_seq, user_id |-> uid,
                                               task |-> task_name,
                                               start |-> CURRENT_TIMESTAMP(d1),
                                               finish |-> NULL]},
                            !.task_seq = @ + 1]),
          raised |-> "none", exits |-> FALSE]

OpenEntries(d, uid, task_name) ==
    {e \in d.tasks : e.user_id = uid /\ e.task = task_name /\ e.finish = NULL}

\* Database.finish_task with "finish IS NOT NULL" in its WHERE clause
db_finish_task_not_null(d, t, uid, task_name, fault) ==
    LET d1 == execute(d, t) IN
    IF fault = "error"
    THEN [db |-> rollback(d1), raised |-> "Error"]
    ELSE [db |-> commit([d1 EXCEPT
                            !.tasks = {IF e.user_id = uid /\ e.task = task_name
                                          /\ e.finish # NULL
                                       THEN [e EXCEPT !.finish = CURRENT_TIMESTAMP(d1)]
                                       ELSE e : e \in @}]),
          raised |-> "none"]

\* Database.finish_task without "finish IS NULL" in its WHERE clause
db_finish_task_any(d, t, uid, task_name, fault) ==
    LET d1 == execute(d, t) IN
    IF fault = "error"
    THEN [db |-> rollback(d1), raised |-> "Error"]
    ELSE [db |-> commit([d1 EXCEPT
                            !.tasks = {IF e.user_id = uid /\ e.task = task_name
                                       THEN [e EXCEPT !.finish = CURRENT_TIMESTAMP(d1)]
                                       ELSE e : e \in @}]),
          raised |-> "none"]

\* Database.finish_task with "LIMIT 1" semantics: it closes the open entry
\* that was started last and no other
db_finish_task_latest(d, t, uid, task_name, fault) ==
    LET d1 == execute(d, t)
        open == OpenEntries(d1, uid, task_name)
        latest == {e \in open : \A o \in open :
                      o.start < e.start \/ (o.start = e.start /\ o.id <= e.id)}
    IN
    IF fault = "error"
    THEN [db |-> rollback(d1), raised |-> "Error"]
    ELSE [db |-> commit([d1 EXCEPT
                            !.tasks = {IF e \in latest
                                       THEN [e EXCEPT !.finish = CURRENT_TIMESTAMP(d1)]
                                       ELSE e : e \in @}]),
          raised |-> "none"]

\* UPDATE mtt_tasks SET finish = CURRENT_TIMESTAMP
\*   WHERE user_id = %s AND task = %s AND finish IS NULL
db_finish_task(d, t, uid, task_name, fault) ==
    LET d1 == execute(d, t) IN
    IF fault = "error"
    THEN [db |-> rollback(d1), raised |-> "Error"]
    ELSE [db |-> commit([d1 EXCEPT
                            !.tasks = {IF e \in OpenEntries(d1, uid, task_name)
                                       THEN [e EXCEPT !.finish = CURRENT_TIMESTAMP(d1)]
                                       ELSE e : e \in @}]),
          raised |-> "none"]

\* ---------------------------------------------------------------- TimerApp
\* f"{n:02}"
Pad2(n) == IF n < 10 THEN "0" \o ToString(n) ELSE ToString(n)

\* timedelta.seconds: the seconds within the day, the days are a separate field
timedelta_seconds(s) == s % 86400

\* update_timer that takes the minutes from the whole duration
time_string_whole_minutes(s) ==
    LET hours == timedelta_seconds(s) \div 3600
        minutes == timedelta_seconds(s) \div 60
        seconds == timedelta_seconds(s) % 60
    IN Pad2(hours) \o ":" \o Pad2(minutes) \o ":" \o Pad2(seconds)

\* the text update_timer writes for an elapsed time of s seconds
time_string(s) ==
    LET hours == timedelta_seconds(s) \div 3600
        remainder == timedelta_seconds(s) % 3600
        minutes == remainder \div 60
        seconds == remainder % 60
    IN Pad2(hours) \o ":" \o Pad2(minutes) \o ":" \o Pad2(seconds)

\* a form that does not test its fields
is_empty_never(text) == FALSE

\* "not username" / "not task_name": the field is empty
is_empty(text) == text = ""

Event(op, calls, raised, dialog) ==
    [op |-> op, calls |-> calls, raised |-> raised, dialog |-> dialog]

NoEvent ==
    [op |-> "none", calls |-> <<>>, raised |-> "none", dialog |-> "none"]

EmptyDb == [users |-> {}, user_seq |-> 1, tasks |-> {}, task_seq |-> 1, txn |-> NULL]

\* module level: Database(...), db.get_mtt_tables(), db.add_user("Dwisler")
\* on a new connection
startup(d, t, fault) == add_user([d EXCEPT !.txn = NULL], t, StartupUser, fault).db

\* TimerApp.__init__
TimerAppInit ==
    /\ user_id = NULL
    /\ user_entry = ""
    /\ user_entry_state = NORMAL
    /\ user_button = NORMAL
    /\ task_entry = ""
    /\ start_button = DISABLED
    /\ stop_button = DISABLED
    /\ timer_label = "00:00:00"
    /\ timer_running = FALSE
    /\ start_time = NULL

Init ==
    /\ db = startup(EmptyDb, 0, "none")
    /\ now = 0
    /\ pc = "idle"
    /\ TimerAppInit
    /\ threads = {}
    /\ peer = [at |-> "idle", username |-> "", ret |-> NULL]
    /\ created = {}
    /\ lastEvent = NoEvent

\* the user types into the username field
edit_user_entry ==
    /\ pc = "idle"
    /\ user_entry_state = NORMAL
    /\ \E u \in UserNames : user_entry' = u
    /\ UNCHANGED <<db, now, pc, user_id, user_entry_state, user_button, task_entry,
                   start_button, stop_button, timer_label, timer_running, start_time,
                   threads, peer, created, lastEvent>>

\* the user types into the task-name field (it is never disabled)
edit_task_entry ==
    /\ pc = "idle"
    /\ \E t \in TaskNames : task_entry' = t
    /\ UNCHANGED <<db, now, pc, user_id, user_entry, user_entry_state, user_button,
                   start_button, stop_button, timer_label, timer_running, start_time,
                   threads, peer, created, lastEvent>>

\* setup_user that enables the start control whatever get_or_create_user
\* setup_user that leaves the username field and the submit control enabled
setup_user_result_keeps_form(uid) ==
    IF uid # NULL
    THEN /\ user_id' = uid
         /\ start_button' = NORMAL
         /\ UNCHANGED <<user_entry_state, user_button>>
    ELSE UNCHANGED <<user_id, user_entry_state, user_button, start_button>>

\* returned
setup_user_result_always(uid) ==
    /\ start_button' = NORMAL
    /\ IF uid # NULL
       THEN /\ user_id' = uid
            /\ user_entry_state' = DISABLED
            /\ user_button' = DISABLED
       ELSE UNCHANGED <<user_id, user_entry_state, user_button>>

\* setup_user that leaves the start control disabled
setup_user_result_no_start(uid) ==
    IF uid # NULL
    THEN /\ user_id' = uid
         /\ user_entry_state' = DISABLED
         /\ user_button' = DISABLED
         /\ start_button' = start_button
    ELSE UNCHANGED <<user_id, user_entry_state, user_button, start_button>>

\* setup_user after get_or_create_user returned uid
setup_user_result(uid) ==
    IF uid # NULL
    THEN /\ user_id' = uid
         /\ user_entry_state' = DISABLED
         /\ user_button' = DISABLED
         /\ start_button' = NORMAL
    ELSE UNCHANGED <<user_id, user_entry_state, user_button, start_button>>

\* setup_user up to the SELECT of get_or_create_user; when the row exists or
\* the SELECT fails the handler runs to its end
setup_user ==
    /\ pc = "idle"
    /\ user_button = NORMAL
    /\ IF is_empty(user_entry)
       THEN /\ lastEvent' = Event("setup_user", <<>>, "none", "Input Error")
            /\ UNCHANGED <<db, pc, user_id, user_entry_state, user_button,
                           start_button>>
       ELSE \E fault \in Faults :
              LET r == select_user(db, now, user_entry, fault) IN
              /\ db' = r.db
              /\ IF r.raised = "none" /\ r.ret = NULL
                 THEN /\ pc' = "add_user"
                      /\ UNCHANGED <<user_id, user_entry_state, user_button,
                                     start_button, lastEvent>>
                 ELSE /\ pc' = pc
                      /\ setup_user_result(r.ret)
                      /\ lastEvent' = Event("setup_user", <<"get_or_create_user">>,
                                            r.raised,
                                            IF r.ret = NULL THEN "Database Error"
                                            ELSE "none")
    /\ UNCHANGED <<now, user_entry, task_entry, stop_button, timer_label,
                   timer_running, start_time, threads, peer, created>>

\* the rest of setup_user when the SELECT found no row: add_user, then the
\* update of the form
setup_user_add_user ==
    /\ pc = "add_user"
    /\ \E fault \in Faults :
         LET r == add_user(db, now, user_entry, fault) IN
         /\ db' = r.db
         /\ setup_user_result(r.ret)
         /\ lastEvent' = Event("setup_user", <<"get_or_create_user", "add_user">>,
                               r.raised,
                               IF r.ret = NULL THEN "Database Error" ELSE "none")
    /\ pc' = "idle"
    /\ UNCHANGED <<now, user_entry, task_entry, stop_button, timer_label,
                   timer_running, start_time, threads, peer, created>>

\* the identity of the thread start_task creates
new_thread_id ==
    CHOOSE i \in 1..MaxThreads :
        /\ i \notin {th.id : th \in threads}
        /\ \A j \in 1..(i - 1) : j \in {th.id : th \in threads}

\* TimerApp.start_task
start_task ==
    /\ pc = "idle"
    /\ start_button = NORMAL
    /\ db.task_seq <= MaxTasks
    /\ Cardinality(threads) < MaxThreads
    /\ IF is_empty(task_entry)
       THEN /\ lastEvent' = Event("start_task", <<>>, "none", "Input Error")
            /\ UNCHANGED <<db, pc, start_time, timer_running, threads, start_button,
                           stop_button, created>>
       ELSE \E outcome \in InsertOutcomes :
              LET r == db_start_task(db, now, user_id, task_entry, outcome) IN
              /\ db' = r.db
              /\ lastEvent' = Event("start_task", <<"start_task">>, r.raised, "none")
              /\ IF r.exits
                 THEN /\ pc' = "exited"
                      /\ threads' = {}
                      /\ UNCHANGED <<start_time, timer_running, start_button,
                                     stop_button, created>>
                 ELSE /\ pc' = pc
                      /\ start_time' = now
                      /\ timer_running' = TRUE
                      /\ threads' = threads \cup {[id |-> new_thread_id, at |-> "loop"]}
                      /\ start_button' = DISABLED
                      /\ stop_button' = NORMAL
                      /\ created' = created \cup {e.id : e \in r.db.tasks \ db.tasks}
    /\ UNCHANGED <<now, user_id, user_entry, user_entry_state, user_button,
                   task_entry, timer_label, peer>>

\* update_timer: a thread wakes from its sleep (or has just started) and
\* tests self.timer_running
update_timer_test ==
    /\ pc # "exited"
    /\ \E th \in threads :
         /\ th.at = "loop"
         /\ threads' = IF timer_running
                       THEN (threads \ {th}) \cup {[th EXCEPT !.at = "body"]}
                       ELSE threads \ {th}
    /\ UNCHANGED <<db, now, pc, user_id, user_entry, user_entry_state, user_button,
                   task_entry, start_button, stop_button, timer_label, timer_running,
                   start_time, peer, created, lastEvent>>

\* update_timer: the body of the loop, up to time.sleep(1)
update_timer_body ==
    /\ pc # "exited"
    /\ \E th \in threads :
         /\ th.at = "body"
         /\ timer_label' = time_string(now - start_time)
         /\ threads' = (threads \ {th}) \cup {[th EXCEPT !.at = "loop"]}
    /\ UNCHANGED <<db, now, pc, user_id, user_entry, user_entry_state, user_button,
                   task_entry, start_button, stop_button, timer_running, start_time,
                   peer, created, lastEvent>>

\* TimerApp.stop_task
stop_task ==
    /\ pc = "idle"
    /\ stop_button = NORMAL
    /\ timer_running' = FALSE
    /\ start_button' = NORMAL
    /\ stop_button' = DISABLED
    /\ \E fault \in Faults :
         LET r == db_finish_task(db, now, user_id, task_entry, fault) IN
         /\ db' = r.db
         /\ lastEvent' = Event("stop_task", <<"finish_task">>, r.raised,
                               "Task Completed")
    /\ UNCHANGED <<now, pc, user_id, user_entry, user_entry_state, user_button,
                   task_entry, timer_label, start_time, threads, peer, created>>

\* a second process on the same store: get_or_create_user up to its SELECT
peer_select ==
    /\ peer.at = "idle"
    /\ \E u \in PeerNames :
         LET ret == select_user([db EXCEPT !.txn = NULL], now, u, "none").ret IN
         peer' = [at |-> IF ret = NULL THEN "add_user" ELSE "idle",
                  username |-> u, ret |-> ret]
    /\ UNCHANGED <<db, now, pc, user_id, user_entry, user_entry_state, user_button,
                   task_entry, start_button, stop_button, timer_label, timer_running,
                   start_time, threads, created, lastEvent>>

\* the second process: add_user after its SELECT found no row
peer_add_user ==
    /\ peer.at = "add_user"
    /\ LET r == add_user([db EXCEPT !.txn = NULL], now, peer.username, "none") IN
       /\ db' = [r.db EXCEPT !.txn = db.txn]
       /\ peer' = [peer EXCEPT !.at = "idle", !.ret = r.ret]
    /\ UNCHANGED <<now, pc, user_id, user_entry, user_entry_state, user_button,
                   task_entry, start_button, stop_button, timer_label, timer_running,
                   start_time, threads, created, lastEvent>>

\* the clock advances
tick ==
    /\ now < MaxTime
    /\ now' = now + 1
    /\ UNCHANGED <<db, pc, user_id, user_entry, user_entry_state, user_button,
                   task_entry, start_button, stop_button, timer_label, timer_running,
                   start_time, threads, peer, created, lastEvent>>

\* the window is closed (or the process has exited) and the program is run
\* again: a fresh session on the same store
restart ==
    /\ pc \in {"idle", "exited"}
    /\ db' = startup(db, now, "none")
    /\ pc' = "idle"
    /\ user_id' = NULL
    /\ user_entry' = ""
    /\ user_entry_state' = NORMAL
    /\ user_button' = NORMAL
    /\ task_entry' = ""
    /\ start_button' = DISABLED
    /\ stop_button' = DISABLED
    /\ timer_label' = "00:00:00"
    /\ timer_running' = FALSE
    /\ start_time' = NULL
    /\ threads' = {}
    /\ created' = {}
    /\ lastEvent' = NoEvent
    /\ UNCHANGED <<now, peer>>

Next ==
    \/ edit_user_entry
    \/ edit_task_entry
    \/ setup_user
    \/ setup_user_add_user
    \/ start_task
    \/ update_timer_test
    \/ update_timer_body
    \/ stop_task
    \/ tick
    \/ restart

Spec == Init /\ [][Next]_vars

\* the username part of the program, run next to a second process
NextPeer ==
    \/ edit_user_entry
    \/ setup_user
    \/ setup_user_add_user
    \/ peer_select
    \/ peer_add_user
    \/ restart

\* the start of the program, also when the store fails at the first add_user
InitPeer ==
    /\ \E fault \in Faults : db = startup(EmptyDb, 0, fault)
    /\ now = 0
    /\ pc = "idle"
    /\ TimerAppInit
    /\ threads = {}
    /\ peer = [at |-> "idle", username |-> "", ret |-> NULL]
    /\ created = {}
    /\ lastEvent = NoEvent

SpecPeer == InitPeer /\ [][NextPeer]_vars

TypeOK ==
    /\ pc \in {"idle", "add_user", "exited"}
    /\ user_id \in {NULL} \cup UserIds(db)
    /\ \A e \in db.tasks : e.start <= now /\ e.finish <= now

\* ------------------------------------------------------------------ claims
\* a handler of the form ran to its end in this step
Handled(op) == lastEvent' # lastEvent /\ lastEvent'.op = op

SessionUser == [id |-> user_id', username |-> user_entry]

\* C1: a get_or_create_user(u) that meets no store error returns an id; when
\* u had no row it inserts exactly one row for u, whose id is new, and returns
\* that id; when u had a row (also one inserted in an earlier session) it
\* returns the id of that row and inserts nothing; rows are never removed.
C1_GetOrCreateUser ==
    [][/\ db.users \subseteq db'.users
       /\ (/\ Handled("setup_user")
           /\ lastEvent'.calls # <<>>
           /\ lastEvent'.raised # "Error")
          => /\ user_id' # NULL
             /\ IF UserRows(db, user_entry) = {}
                THEN /\ db'.users = db.users \cup {SessionUser}
                     /\ user_id' \notin UserIds(db)
                ELSE /\ db'.users = db.users
                     /\ UserRows(db, user_entry) = {SessionUser}]_vars

\* a later session got the id of the row an earlier session had inserted
C1_Witness ==
    /\ lastEvent.op = "setup_user"
    /\ lastEvent.calls = <<"get_or_create_user">>
    /\ user_id # NULL
    /\ [id |-> user_id, username |-> user_entry] \in db.users

PairEntries(d, uid, task_name) ==
    {e \in d.tasks : e.user_id = uid /\ e.task = task_name}

\* the entry the last successful INSERT into mtt_tasks made
LastInserted(d) == {e \in d.tasks : e.id = d.task_seq - 1}

\* C2: when Database.start_task(u, t) has inserted the first entry of the
\* pair (u, t) and the next gateway call is Database.finish_task(u, t), both
\* without a store error, the pair has exactly one entry afterwards, with
\* finish_time present and finish_time >= start_time.
C2_StartThenFinish ==
    [][(/\ lastEvent.op = "start_task"
        /\ lastEvent.raised = "none"
        /\ lastEvent.calls # <<>>
        /\ Handled("stop_task")
        /\ lastEvent'.raised = "none"
        /\ PairEntries(db, user_id, task_entry) = LastInserted(db))
       => /\ Cardinality(PairEntries(db', user_id, task_entry)) = 1
          /\ \A e \in PairEntries(db', user_id, task_entry) :
                e.finish # NULL /\ e.finish >= e.start]_vars

\* the pair's only entry was started at 0 and finished at 1
C2_Witness ==
    /\ lastEvent.op = "stop_task"
    /\ lastEvent.raised = "none"
    /\ \E e \in db.tasks :
         /\ PairEntries(db, user_id, task_entry) = {e}
         /\ e.start = 0
         /\ e.finish = 1

\* C3: Database.finish_task(u, t) with no open entry of (u, t) changes no
\* user row and no task entry and raises nothing: stop_task runs to its end.
C3_FinishNoOpenEntry ==
    [][(/\ Handled("stop_task")
        /\ OpenEntries(db, user_id, task_entry) = {})
       => /\ db'.users = db.users
          /\ db'.tasks = db.tasks
          /\ pc' = "idle"
          /\ lastEvent'.dialog = "Task Completed"]_vars

\* stop_task has run for a pair that has a closed entry and no entry was open
C3_Witness ==
    /\ lastEvent.op = "stop_task"
    /\ lastEvent.raised = "none"
    /\ \E e \in db.tasks : e.task # task_entry /\ e.finish = NULL
    /\ \E e \in db.tasks : e.task = task_entry /\ e.finish # NULL /\ e.finish < now

\* C4 as stated: with several open entries of (u, t), finish_task(u, t) sets
\* finish_time on the one started last and leaves the others open.
C4_OnlyMostRecent ==
    [][(/\ Handled("stop_task")
        /\ lastEvent'.raised = "none"
        /\ Cardinality(OpenEntries(db, user_id, task_entry)) >= 2)
       => \E e \in OpenEntries(db, user_id, task_entry) :
             /\ \A o \in OpenEntries(db, user_id, task_entry) : o.start <= e.start
             /\ e \notin db'.tasks
             /\ OpenEntries(db', user_id, task_entry)
                  = OpenEntries(db, user_id, task_entry) \ {e}]_vars

\* C4 (amended): with several open entries of (u, t), finish_task(u, t) sets
\* finish_time, to one and the same store time, on every one of them; no
\* entry of the pair stays open and no other entry changes.
C4_AllOpenEntries ==
    [][(/\ Handled("stop_task")
        /\ lastEvent'.raised = "none"
        /\ Cardinality(OpenEntries(db, user_id, task_entry)) >= 2)
       => /\ OpenEntries(db', user_id, task_entry) = {}
          /\ \E f \in 0..now :
               db'.tasks = (db.tasks \ OpenEntries(db, user_id, task_entry))
                           \cup {[e EXCEPT !.finish = f] :
                                   e \in OpenEntries(db, user_id, task_entry)}]_vars

\* two entries of the pair were open together and one stop_task closed both
C4_Witness ==
    /\ lastEvent.op = "stop_task"
    /\ lastEvent.raised = "none"
    /\ \E e1, e2 \in PairEntries(db, user_id, task_entry) :
         /\ e1.id # e2.id
         /\ e1.finish = e2.finish
         /\ e1.finish # NULL
         /\ e1.start < e1.finish
         /\ e2.start < e2.finish

UserReady == pc = "idle" /\ user_id # NULL /\ ~timer_running

TaskRunning == timer_running

NoUser == user_id = NULL

\* C5 as stated, for a stop_task whose finish_task met no store error: back
\* in UserReady after stop_task, no entry inserted by this session's
\* start_task is open.
C5_StopClosesStarted ==
    (/\ UserReady
     /\ lastEvent.op = "stop_task"
     /\ lastEvent.raised = "none")
    => \A e \in db.tasks : e.id \in created => e.finish # NULL

\* C6: the start control is enabled exactly in UserReady, the stop control
\* exactly in TaskRunning, neither in NoUser, and never both.
C6_EnabledControls ==
    /\ start_button = NORMAL <=> (user_id # NULL /\ ~timer_running)
    /\ stop_button = NORMAL <=> timer_running
    /\ NoUser => start_button = DISABLED /\ stop_button = DISABLED
    /\ ~(start_button = NORMAL /\ stop_button = NORMAL)

\* the form is back in UserReady after a task was started and stopped
C6_Witness ==
    /\ lastEvent.op = "stop_task"
    /\ UserReady
    /\ start_button = NORMAL
    /\ stop_button = DISABLED

\* C7: setup_user with an empty username and start_task with an empty task
\* name show the input error, call no gateway method and change neither the
\* store nor the form.
C7_EmptyFieldRejected ==
    [][(\/ Handled("setup_user") /\ user_entry = ""
        \/ Handled("start_task") /\ task_entry = "")
       => /\ lastEvent'.calls = <<>>
          /\ lastEvent'.dialog = "Input Error"
          /\ UNCHANGED <<db, pc, user_id, user_entry, user_entry_state, user_button,
                         task_entry, start_button, stop_button, timer_label,
                         timer_running, start_time, threads, created>>]_vars

\* start_task was rejected for an empty task name in UserReady
C7_Witness ==
    /\ lastEvent.op = "start_task"
    /\ lastEvent.dialog = "Input Error"
    /\ task_entry = ""
    /\ UserReady

\* C8: when get_or_create_user returns no id (a store error, or a unique
\* violation in add_user), setup_user leaves the form in NoUser with the
\* username field and the submit control enabled and the start control
\* disabled.
C8_SetupUserFailure ==
    [][(/\ Handled("setup_user")
        /\ lastEvent'.raised # "none")
       => /\ pc' = "idle"
          /\ user_id' = NULL
          /\ user_entry_state' = NORMAL
          /\ user_button' = NORMAL
          /\ start_button' = DISABLED
          /\ stop_button' = DISABLED
          /\ lastEvent'.dialog = "Database Error"]_vars

\* the INSERT of add_user lost against the second process
C8_Witness ==
    /\ lastEvent.op = "setup_user"
    /\ lastEvent.raised = "UniqueViolation"
    /\ user_id = NULL
    /\ UserRows(db, user_entry) # {}

\* C9 as stated: in TaskRunning the start_task call that entered the state
\* has persisted its entry, and the store holds that entry open.
C9_RunningHasOpenEntry ==
    (TaskRunning /\ lastEvent.op = "start_task")
    => /\ lastEvent.raised = "none"
       /\ \E e \in LastInserted(db) :
          /\ e.id \in created
          /\ e.finish = NULL
          /\ e.user_id = user_id

\* C10: a store error other than a unique violation in Database.start_task
\* is rolled back and ends the process: no entry is added, the form is not
\* in TaskRunning and no timer thread runs.
C10_StartTaskStoreError ==
    [][/\ (Handled("start_task") /\ lastEvent'.raised = "Error")
          => /\ db'.tasks = db.tasks
             /\ db'.txn = NULL
             /\ pc' = "exited"
             /\ ~timer_running'
             /\ stop_button' = DISABLED
             /\ threads' = {}
       /\ pc = "exited" => pc' = "exited" \/ lastEvent' = NoEvent]_vars

\* the process has exited in start_task
C10_Witness ==
    /\ pc = "exited"
    /\ lastEvent.op = "start_task"
    /\ lastEvent.raised = "Error"
    /\ ~timer_running

\* ------------------------------------------------------------ the display
\* a task of user 2 that was started at 0 and has been running for any number
\* of seconds up to MaxElapsed, its timer thread about to test the flag
InitFormat ==
    /\ db = [users |-> {[id |-> 1, username |-> StartupUser],
                        [id |-> 2, username |-> "alice"]},
             user_seq |-> 3,
             tasks |-> {[id |-> 1, user_id |-> 2, task |-> "t1", start |-> 0,
                         finish |-> NULL]},
             task_seq |-> 2, txn |-> NULL]
    /\ now \in 0..MaxElapsed
    /\ pc = "idle"
    /\ user_id = 2
    /\ user_entry = "alice"
    /\ user_entry_state = DISABLED
    /\ user_button = DISABLED
    /\ task_entry = "t1"
    /\ start_button = DISABLED
    /\ stop_button = NORMAL
    /\ timer_label = "00:00:00"
    /\ timer_running = TRUE
    /\ start_time = 0
    /\ threads = {[id |-> 1, at |-> "loop"]}
    /\ peer = [at |-> "idle", username |-> "", ret |-> NULL]
    /\ created = {1}
    /\ lastEvent = [op |-> "start_task", calls |-> <<"start_task">>,
                    raised |-> "none", dialog |-> "none"]

NextFormat ==
    \/ update_timer_test
    \/ update_timer_body

SpecFormat == InitFormat /\ [][NextFormat]_vars

\* a timer thread runs the body of its loop in this step
Ticks ==
    \E th \in threads :
       /\ th.at = "body"
       /\ threads' = (threads \ {th}) \cup {[th EXCEPT !.at = "loop"]}

\* the seconds between the recorded start instant and now
Elapsed == now - start_time

\* n written with two decimal digits
TwoDigits(n) == ToString(n \div 10) \o ToString(n % 10)

\* "HH:MM:SS" of the claim: HH = s div 3600, MM = (s mod 3600) div 60,
\* SS = s mod 60
Displayed(s) ==
    TwoDigits(s \div 3600) \o ":" \o TwoDigits((s % 3600) \div 60) \o ":"
        \o TwoDigits(s % 60)

\* C11: for an elapsed time of s seconds, 0 <= s < 86400, tick displays HH:MM:SS
\* with HH = s div 3600, MM = (s mod 3600) div 60, SS = s mod 60, each on two
\* digits; 3725 displays "01:02:05" and 5 displays "00:00:05".
C11_DisplayBelowOneDay ==
    [][(Ticks /\ Elapsed >= 0 /\ Elapsed < 86400)
       => /\ timer_label' = Displayed(Elapsed)
          /\ Elapsed = 3725 => timer_label' = "01:02:05"
          /\ Elapsed = 5 => timer_label' = "00:00:05"]_vars

\* the display after 1 h 2 min 5 s
C11_Witness ==
    /\ Elapsed = 3725
    /\ timer_label = "01:02:05"
    /\ timer_running

\* C12 as stated: for a task running s >= 86400 seconds, tick displays the
\* hours s div 3600, a value above 23.
C12_HoursBeyondOneDay ==
    [][(Ticks /\ Elapsed >= 86400)
       => timer_label' = TwoDigits(Elapsed \div 3600) \o ":"
                           \o TwoDigits((Elapsed % 3600) \div 60) \o ":"
                           \o TwoDigits(Elapsed % 60)]_vars

\* the runs of the program in which no statement meets a store error
setup_user_ok == setup_user /\ lastEvent'.raised = "none"

setup_user_add_user_ok == setup_user_add_user /\ lastEvent'.raised = "none"

start_task_ok == start_task /\ lastEvent'.raised = "none"

stop_task_ok == stop_task /\ lastEvent'.raised = "none"

NextOk ==
    \/ edit_user_entry
    \/ edit_task_entry
    \/ setup_user_ok
    \/ setup_user_add_user_ok
    \/ start_task_ok
    \/ update_timer_test
    \/ update_timer_body
    \/ stop_task_ok
    \/ tick
    \/ restart

SpecOk == Init /\ [][NextOk]_vars

\* the pairs (user_id, task_name) the store has entries of
Pairs(d) == {<<e.user_id, e.task>> : e \in d.tasks}

\* C13 as stated, for the entries this session's start_task inserted (the
\* session found no open entry of its own) and a store that never fails: the
\* store holds at most one open entry per (user_id, task_name).
C13_OneOpenEntryPerPair ==
    \A p \in Pairs(db) :
       Cardinality({e \in OpenEntries(db, p[1], p[2]) : e.id \in created}) <= 1

\* C14: with a clock that never goes backwards, every entry with finish_time
\* present has start_time <= finish_time, and an entry with finish_time
\* present is never changed again.
C14_StartBeforeFinish ==
    [][/\ \A e \in db.tasks : e.finish # NULL => e.start <= e.finish
       /\ \A e \in db'.tasks : e.finish # NULL => e.start <= e.finish
       /\ \A e \in db.tasks : e.finish # NULL => e \in db'.tasks]_vars

\* a later finish_task of the pair ran after an entry of the pair was closed:
\* two closed entries of the pair with different finish times
C14_Witness ==
    \E e1, e2 \in db.tasks :
       /\ e1.user_id = e2.user_id
       /\ e1.task = e2.task
       /\ e1.finish # NULL
       /\ e1.finish < e2.finish
       /\ e1.start <= e1.finish
       /\ e2.start <= e2.finish

\* C15 as stated: the timer label is written only while timer_running is
\* true.
C15_DisplayOnlyWhileRunning ==
    [][Ticks => timer_running]_vars

\* a gateway write (add_user, Database.start_task, Database.finish_task) was
\* the last call of the handler of this step and failed with a store error
FailedWrite ==
    /\ lastEvent' # lastEvent
    /\ lastEvent'.raised # "none"
    /\ lastEvent'.calls # <<>>
    /\ lastEvent'.calls[Len(lastEvent'.calls)] \in {"add_user", "start_task", "finish_task"}

\* C16: a gateway write that fails with a store error is rolled back on its
\* own: the users and tasks tables are exactly what they were before the
\* call (so every earlier committed write is still there) and no transaction
\* is left open.
C16_FailedWriteRolledBack ==
    [][FailedWrite => /\ db'.users = db.users
                      /\ db'.tasks = db.tasks
                      /\ db'.txn = NULL]_vars

\* Database.start_task failed after the session had created its user row and
\* closed an entry: the row and the entry are still in the store
C16_Witness ==
    /\ lastEvent.calls = <<"start_task">>
    /\ lastEvent.raised # "none"
    /\ UserRows(db, user_entry) # {}
    /\ \E e \in db.tasks : e.id \in created /\ e.finish # NULL
    /\ db.txn = NULL

\* C17: once setup_user has set user_id, no step of the session changes it,
\* setup_user does not run again (its control stays disabled and no
\* get_or_create_user call is in progress), and every entry a step adds or
\* closes carries user_id.
C17_UserIdFixed ==
    [][(user_id # NULL /\ lastEvent' # NoEvent)
       => /\ user_id' = user_id
          /\ ~Handled("setup_user")
          /\ user_button' = DISABLED
          /\ pc' # "add_user"
          /\ \A e \in db'.tasks \ db.tasks : e.user_id = user_id]_vars

\* the session has started and closed an entry, and the entry carries the
\* user_id of the session
C17_Witness ==
    /\ user_id # NULL
    /\ lastEvent.op = "stop_task"
    /\ \E e \in db.tasks :
          /\ e.id \in created
          /\ e.finish # NULL
          /\ e.user_id = user_id

\* C18 as stated: at most one timer thread is live at any time.
C18_OneTimerThread ==
    Cardinality(threads) <= 1

\* C19: with a second process running get_or_create_user, the store holds at
\* most one row per username, and an id a call returned (to the form or to
\* the second process) is the id of the row of that username.
C19_UniqueUsernames ==
    /\ \A u \in UserNames \cup PeerNames : Cardinality(UserRows(db, u)) <= 1
    /\ user_id # NULL => [id |-> user_id, username |-> user_entry] \in db.users
    /\ (peer.at = "idle" /\ peer.ret # NULL)
       => [id |-> peer.ret, username |-> peer.username] \in db.users

\* both processes ran get_or_create_user for the same new username with
\* their SELECTs before either INSERT; the second process lost and got no id
C19_Witness ==
    /\ peer.at = "idle"
    /\ peer.username = user_entry
    /\ peer.ret = NULL
    /\ user_id # NULL
    /\ lastEvent.calls = <<"get_or_create_user", "add_user">>
    /\ Cardinality(UserRows(db, user_entry)) = 1

====
